---- MODULE Spec2Model ----
(***************************************************************************)
(* Model of pkg/brevssh: the reconciliation of the user's ssh client       *)
(* configuration with the list of active workspaces.                       *)
(*                                                                         *)
(* A configuration text is a sequence of lines and a line is the sequence  *)
(* of its space separated tokens (<<>> is a blank line).  Indentation is   *)
(* kept by the parser and written back unchanged, and no function of the   *)
(* package looks at it (hostnameFromString trims it), so it is left out.   *)
(***************************************************************************)
EXTENDS Integers, Sequences, FiniteSets, TLC

VARIABLES
    file,        \* SSHStore: the persisted configuration text
    backup,      \* SSHStore: the text saved by the last CreateNewSSHConfigBackup
    keyFile,     \* SSHStore: the private key written by WritePrivateKey
    workspaces,  \* DefaultSSHConfigurer.workspaces (their DNS identifiers)
    sshConfig,   \* DefaultSSHConfigurer.sshConfig (Nil: nil pointer)
    pc,          \* position of the caller: "none", "idle", a stage of Config, "crashed"
    result,      \* how the last Config ended: "none", "ok", "err", "panic"
    calls,       \* [stage, ok] of the stages run by the current (or last) Config invocation
    created,     \* <<identifier, port>> of the entries rendered by the last create stage
    preFile,     \* file at the entry of the current (or last) Config invocation
    preDoc,      \* sshConfig at the entry of the current (or last) Config invocation
    prevActive,  \* identifiers of the last Config run if it succeeded, as a set
    sameAsPrev,  \* the current (or last) invocation started with prevActive as its active set
    runs,        \* number of Config invocations started
    localCfg,    \* brev_ssh (the earlier version of the package): the local cfg of Config
    lookup,      \* what the last GetConfiguredWorkspacePort since the last Config returned
    rendered,    \* MakeSSHEntry on its own: its arguments and the configuration parsed back
    reader,      \* the last call of a Reader operation of SSHConfig and what it returned
    pipe,         \* SSHConfigurer: its workspaces and Writers, and how far its Sync has come
    proxy,       \* the proxy command: its workspace, position and the calls it has made
    imp          \* the import command: the dictionaries and the calls of findDependencies

vars == <<file, backup, keyFile, workspaces, sshConfig, pc, result, calls,
          created, preFile, preDoc, prevActive, sameAsPrev, runs, localCfg, lookup, rendered,
          reader, pipe, proxy, imp>>

----------------------------------------------------------------------------
(* Bounds *)

MaxBlocks == 2
MaxWorkspaces == 2
MaxRuns == 2

(* Program constants *)

BasePort == 2222

PrivateKeyPath == "/brev.pem"
PrivateKey == "pem"
Identifiers == {"a", "b", "c"}

\* a nil *ssh_config.Config: a decoded configuration has at least its implicit host
Nil == <<>>
\* no text, which is not the empty text
NoText == << <<"(none)">> >>
NoKey == "(none)"
NoRun == {"(none)"}
\* Proxy is not running
NoProxy == [workspace |-> [Status |-> "", Version |-> "", Image |-> <<>>], disableCheck |-> FALSE,
            pc |-> "none", calls |-> <<>>, result |-> "none"]
\* prependDependencies is not running
NoImport == [shName |-> "", baseline |-> <<>>, global |-> <<>>, stack |-> <<>>,
             status |-> "none", order |-> <<>>, failures |-> <<>>]
\* no Reader operation has been called
NoRead == [op |-> "(none)", outcome |-> "none", value |-> {}]
\* there is no SSHConfigurer
NoPipe == [workspaces |-> <<>>, writers |-> <<>>, fault |-> "none", map |-> <<>>, next |-> 0,
           called |-> <<>>, outcome |-> "none"]
\* MakeSSHEntry is not looked at on its own
NoEntry == [workspaceName |-> "(none)", port |-> "(none)", privateKeyPath |-> "(none)",
            parsed |-> <<>>]
\* GetConfiguredWorkspacePort has not been called
NoLookup == [alias |-> "(none)", port |-> "(none)", outcome |-> "none"]

----------------------------------------------------------------------------
(* github.com/kevinburke/ssh_config as the package uses it *)

IsHostLine(line) == Len(line) >= 1 /\ line[1] = "Host"

IsKV(line) == Len(line) >= 2 /\ line[1] # "Host"

ImplicitHost == [implicit |-> TRUE, patterns |-> <<"*">>, nodes |-> <<>>]

RECURSIVE DecodeFrom(_, _)
DecodeFrom(lines, hosts) ==
    IF lines = <<>> THEN hosts
    ELSE LET l == Head(lines) IN
         IF IsHostLine(l)
         THEN DecodeFrom(Tail(lines),
                         Append(hosts, [implicit |-> FALSE, patterns |-> Tail(l), nodes |-> <<>>]))
         ELSE DecodeFrom(Tail(lines),
                         [hosts EXCEPT ![Len(hosts)].nodes = Append(@, l)])

\* the mark, after its last line, of a text whose last line has no newline
NoNewline == <<"(no newline)">>

\* the lines of a text as the lexer of ssh_config sees them
Lines(text) ==
    IF text # <<>> /\ text[Len(text)] = NoNewline THEN SubSeq(text, 1, Len(text) - 1) ELSE text

\* ssh_config.Decode: the top level nodes go to an implicit "Host *" block
Decode(text) == DecodeFrom(Lines(text), <<ImplicitHost>>)

\* Decode rejects a Match directive
DecodeRejects(text) == \E i \in 1..Len(text) : Len(text[i]) >= 1 /\ text[i][1] = "Match"

\* Decode opens the files of an Include directive, which can fail
DecodeReadsFiles(text) == \E i \in 1..Len(text) : Len(text[i]) >= 1 /\ text[i][1] = "Include"

\* Host.String
HostString(host) ==
    IF host.implicit THEN host.nodes ELSE <<(<<"Host">> \o host.patterns)>> \o host.nodes

RECURSIVE ConcatHosts(_)
ConcatHosts(hosts) ==
    IF hosts = <<>> THEN <<>> ELSE HostString(Head(hosts)) \o ConcatHosts(Tail(hosts))

\* Config.String
ConfigString(cfg) == ConcatHosts(cfg)

\* Pattern matching: "*" matches any alias, "?" any alias of one character
PatternMatches(pat, alias) ==
    \/ pat = "*"
    \/ pat = "?" /\ alias \in Identifiers \cup {"?", "*"}
    \/ pat = alias

\* Host.Matches
HostMatches(host, alias) == \E i \in 1..Len(host.patterns) : PatternMatches(host.patterns[i], alias)

NoValue == "(none)"

\* the value of the first KV node of the host with that key, or NoValue
HostValue(host, key) ==
    LET idx == {i \in 1..Len(host.nodes) : IsKV(host.nodes[i]) /\ host.nodes[i][1] = key}
    IN  IF idx = {} THEN NoValue
        ELSE host.nodes[CHOOSE i \in idx : \A j \in idx : i <= j][2]

\* Config.Get: the first value of the key in the first matching host that has one, else ""
ConfigGet(cfg, alias, key) ==
    LET idx == {i \in 1..Len(cfg) : HostMatches(cfg[i], alias) /\ HostValue(cfg[i], key) # NoValue}
    IN  IF idx = {} THEN ""
        ELSE HostValue(cfg[CHOOSE i \in idx : \A j \in idx : i <= j], key)

----------------------------------------------------------------------------
(* Pure functions of pkg/brevssh/ssh.go *)

RECURSIVE TrimLeadingBlank(_)
TrimLeadingBlank(text) ==
    IF text = <<>> THEN <<>>
    ELSE IF Head(text) = <<>> THEN TrimLeadingBlank(Tail(text)) ELSE text

\* mutant: the first token of the header line is taken, not the second
hostnameFromString_FirstToken(hoststring) ==
    LET trimmed == TrimLeadingBlank(hoststring) IN
    IF trimmed = <<>> THEN ""
    ELSE IF Len(trimmed[1]) < 2 THEN ""
    ELSE trimmed[1][1]

hostnameFromString(hoststring) ==
    LET trimmed == TrimLeadingBlank(hoststring) IN
    IF trimmed = <<>> THEN ""
    ELSE IF Len(trimmed[1]) < 2 THEN ""
    ELSE trimmed[1][2]

\* mutant: any IdentityFile line makes a brev host
checkIfBrevHost_AnyIdentityFile(host, privateKeyPath) ==
    \E i \in 1..Len(host.nodes) :
        /\ IsKV(host.nodes[i])
        /\ host.nodes[i][1] = "IdentityFile"

checkIfBrevHost(host, privateKeyPath) ==
    \E i \in 1..Len(host.nodes) :
        /\ IsKV(host.nodes[i])
        /\ host.nodes[i][1] = "IdentityFile"
        /\ host.nodes[i][2] = privateKeyPath

\* mutant: the header alias is matched as a host pattern, not compared
checkIfHostIsActive_Pattern(hoststring, activeWorksSpaces) ==
    \E i \in 1..Len(activeWorksSpaces) :
        PatternMatches(hostnameFromString(hoststring), activeWorksSpaces[i])

checkIfHostIsActive(hoststring, activeWorksSpaces) ==
    \E i \in 1..Len(activeWorksSpaces) : activeWorksSpaces[i] = hostnameFromString(hoststring)

\* mutant: only the brev hosts are printed
createConfigEntry_BrevOnly(hoststring, isBrevHost, isActiveHost) ==
    IF isBrevHost /\ isActiveHost THEN hoststring ELSE <<>>

\* mutant: every host that is not active is dropped, brev host or not
createConfigEntry_DropInactive(hoststring, isBrevHost, isActiveHost) ==
    IF isActiveHost THEN hoststring ELSE <<>>

createConfigEntry(hoststring, isBrevHost, isActiveHost) ==
    IF ~isBrevHost THEN hoststring
    ELSE IF isBrevHost /\ isActiveHost THEN hoststring
    ELSE <<>>

\* mutant: the template puts the Hostname field on the Host line
MakeSSHEntry_HostnameHeader(workspaceName, port, privateKeyPath) ==
    << <<"Host", "0.0.0.0">>,
       <<"Hostname", "0.0.0.0">>,
       <<"IdentityFile", privateKeyPath>>,
       <<"User", "brev">>,
       <<"Port", port>>,
       <<>> >>

MakeSSHEntry(workspaceName, port, privateKeyPath) ==
    << <<"Host", workspaceName>>,
       <<"Hostname", "0.0.0.0">>,
       <<"IdentityFile", privateKeyPath>>,
       <<"User", "brev">>,
       <<"Port", port>>,
       <<>> >>

GetActiveWorkspaceIdentifiers(ws) == ws

\* mutant: the aliases of all hosts are collected, brev hosts or not
GetBrevHostValues_AllHosts(cfg) ==
    [i \in 1..Len(cfg) |-> hostnameFromString(HostString(cfg[i]))]

\* mutant: the test of checkIfBrevHost is inverted
GetBrevHostValues_Inverted(cfg) ==
    LET F[i \in 0..Len(cfg)] ==
            IF i = 0 THEN <<>>
            ELSE IF ~checkIfBrevHost(cfg[i], PrivateKeyPath)
                 THEN Append(F[i-1], hostnameFromString(HostString(cfg[i])))
                 ELSE F[i-1]
    IN  F[Len(cfg)]

\* DefaultSSHConfigurer.GetBrevHostValues
GetBrevHostValues(cfg) ==
    LET F[i \in 0..Len(cfg)] ==
            IF i = 0 THEN <<>>
            ELSE IF checkIfBrevHost(cfg[i], PrivateKeyPath)
                 THEN Append(F[i-1], hostnameFromString(HostString(cfg[i])))
                 ELSE F[i-1]
    IN  F[Len(cfg)]

\* DefaultSSHConfigurer.GetBrevPorts
GetBrevPorts(cfg, hostnames) ==
    {ConfigGet(cfg, hostnames[i], "Port") : i \in 1..Len(hostnames)}

\* for ports[fmt.Sprint(port)] { port++ }
RECURSIVE SkipUsedPorts(_, _)
SkipUsedPorts(port, ports) ==
    IF ToString(port) \in ports THEN SkipUsedPorts(port + 1, ports) ELSE port

\* the loop of DefaultSSHConfigurer.CreateBrevSSHConfigEntries
RECURSIVE CreateLoop(_, _, _)
CreateLoop(ids, brevHostValuesSet, acc) ==
    IF ids = <<>> THEN acc
    ELSE LET workspaceIdentifier == Head(ids) IN
         IF workspaceIdentifier \notin brevHostValuesSet
         THEN LET port == SkipUsedPorts(acc.port, acc.ports)
                  entry == MakeSSHEntry(workspaceIdentifier, ToString(port), PrivateKeyPath)
              IN  CreateLoop(Tail(ids), brevHostValuesSet,
                             [port |-> port,
                              ports |-> acc.ports \cup {ToString(port)},
                              sshConfigStr |-> acc.sshConfigStr \o entry,
                              identifierPortMapping |->
                                  Append(acc.identifierPortMapping,
                                         <<workspaceIdentifier, ToString(port)>>)])
         ELSE CreateLoop(Tail(ids), brevHostValuesSet, acc)

\* mutant: the new entries are put before the text of the configuration
CreateEntries_Prepend(cfg, ws) ==
    LET brevHostValues == GetBrevHostValues(cfg)
        brevHostValuesSet == {brevHostValues[i] : i \in 1..Len(brevHostValues)}
        r == CreateLoop(GetActiveWorkspaceIdentifiers(ws), brevHostValuesSet,
                        [port |-> BasePort,
                         ports |-> GetBrevPorts(cfg, brevHostValues),
                         sshConfigStr |-> <<>>,
                         identifierPortMapping |-> <<>>])
    IN  [r EXCEPT !.sshConfigStr = r.sshConfigStr \o ConfigString(cfg)]

\* DefaultSSHConfigurer.CreateBrevSSHConfigEntries up to the final Decode
CreateEntries(cfg, ws) ==
    LET brevHostValues == GetBrevHostValues(cfg)
        brevHostValuesSet == {brevHostValues[i] : i \in 1..Len(brevHostValues)}
    IN  CreateLoop(GetActiveWorkspaceIdentifiers(ws), brevHostValuesSet,
                   [port |-> BasePort,
                    ports |-> GetBrevPorts(cfg, brevHostValues),
                    sshConfigStr |-> ConfigString(cfg),
                    identifierPortMapping |-> <<>>])

\* the loop of DefaultSSHConfigurer.PruneInactiveWorkspaces: newConfig
RECURSIVE PruneHosts(_, _)
PruneHosts(hosts, activeWorksSpaces) ==
    IF hosts = <<>> THEN <<>>
    ELSE LET hoststring == HostString(Head(hosts))
             isBrevHost == checkIfBrevHost(Head(hosts), PrivateKeyPath)
             isActiveHost == checkIfHostIsActive(hoststring, activeWorksSpaces)
         IN  createConfigEntry(hoststring, isBrevHost, isActiveHost)
                 \o PruneHosts(Tail(hosts), activeWorksSpaces)

\* the outcomes ssh_config.Decode can have on a text: TRUE is success
DecodeOutcomes(text) ==
    IF DecodeRejects(text) THEN {FALSE}
    ELSE IF DecodeReadsFiles(text) THEN {TRUE, FALSE}
    ELSE {TRUE}

\* mutant: the error of the backup is not looked at
ConfigNext_IgnoreBackupErr(stage, ok) ==
    IF stage = "CreateNewSSHConfigBackup" THEN "CreateBrevSSHConfigEntries"
    ELSE IF ~ok THEN "return"
    ELSE CASE stage = "WritePrivateKey" -> "CreateNewSSHConfigBackup"
           [] stage = "CreateBrevSSHConfigEntries" -> "PruneInactiveWorkspaces"
           [] stage = "PruneInactiveWorkspaces" -> "WriteSSHConfig"
           [] stage = "WriteSSHConfig" -> "return"

\* mutant: the configuration is written before the stale entries are pruned
ConfigNext_WriteBeforePrune(stage, ok) ==
    IF ~ok THEN "return"
    ELSE CASE stage = "WritePrivateKey" -> "CreateNewSSHConfigBackup"
           [] stage = "CreateNewSSHConfigBackup" -> "CreateBrevSSHConfigEntries"
           [] stage = "CreateBrevSSHConfigEntries" -> "WriteSSHConfig"
           [] stage = "WriteSSHConfig" -> "PruneInactiveWorkspaces"
           [] stage = "PruneInactiveWorkspaces" -> "return"

\* Config: the stage that follows a stage, "return" once a stage failed or all are done
ConfigNext(stage, ok) ==
    IF ~ok THEN "return"
    ELSE CASE stage = "WritePrivateKey" -> "CreateNewSSHConfigBackup"
           [] stage = "CreateNewSSHConfigBackup" -> "CreateBrevSSHConfigEntries"
           [] stage = "CreateBrevSSHConfigEntries" -> "PruneInactiveWorkspaces"
           [] stage = "PruneInactiveWorkspaces" -> "WriteSSHConfig"
           [] stage = "WriteSSHConfig" -> "return"

----------------------------------------------------------------------------
(* SSHStore: an operation that fails leaves what it writes as it was *)

StoreWritePrivateKey(current, pem, ok) == IF ok THEN pem ELSE current

StoreCreateNewSSHConfigBackup(current, config, ok) == IF ok THEN config ELSE current

StoreWriteSSHConfig(current, config, ok) == IF ok THEN config ELSE current

----------------------------------------------------------------------------
(* The configuration files the user can have *)

ManagedBlock(alias, port) == MakeSSHEntry(alias, port, PrivateKeyPath)

ForeignBlock(pattern, port) == << <<"Host", pattern>>, <<"Port", port>> >>

Blocks ==
    { ManagedBlock("a", "2222"),
      ManagedBlock("b", "2223"),
      ManagedBlock("b", "2222"),
      ForeignBlock("a", "22"),
      ForeignBlock("*", "22"),
      << <<"Host", "?">>, <<"IdentityFile", PrivateKeyPath>>, <<"Port", "2224">> >> }

Preambles ==
    { <<>>,
      << <<"Include", "f">> >>,
      << <<"IdentityFile", PrivateKeyPath>> >> }

RECURSIVE Flatten(_)
Flatten(seqs) == IF seqs = <<>> THEN <<>> ELSE Head(seqs) \o Flatten(Tail(seqs))

BlockSeqs == UNION {[1..n -> Blocks] : n \in 0..MaxBlocks}

\* files whose last line the user did not end with a newline
UnterminatedTexts ==
    { ForeignBlock("a", "22") \o <<NoNewline>>,
      ForeignBlock("*", "22") \o ForeignBlock("a", "22") \o <<NoNewline>> }

InitialTexts == {pre \o Flatten(bs) : pre \in Preambles, bs \in BlockSeqs} \cup UnterminatedTexts

WorkspaceLists == UNION {[1..n -> Identifiers] : n \in 0..MaxWorkspaces}

----------------------------------------------------------------------------
(* State machine *)

Init ==
    /\ file \in InitialTexts
    /\ backup = NoText
    /\ keyFile = NoKey
    /\ workspaces = <<>>
    /\ sshConfig = Nil
    /\ pc = "none"
    /\ result = "none"
    /\ calls = <<>>
    /\ created = <<>>
    /\ preFile = NoText
    /\ preDoc = Nil
    /\ prevActive = NoRun
    /\ sameAsPrev = FALSE
    /\ runs = 0
    /\ localCfg = Nil
    /\ lookup = NoLookup
    /\ rendered = NoEntry
    /\ reader = NoRead
    /\ pipe = NoPipe
    /\ proxy = NoProxy
    /\ imp = NoImport

\* NewDefaultSSHConfigurer with Init: GetSSHConfig, then Decode.  A caller that gets
\* an error drops the configurer; one is made at the start and after a Config run.
NewDefaultSSHConfigurer ==
    /\ pc = "none" \/ (pc \in {"idle", "crashed"} /\ result # "none")
    /\ runs < MaxRuns
    /\ \E ws \in WorkspaceLists, readOk \in BOOLEAN :
        \E decodeOk \in DecodeOutcomes(file) :
          IF readOk /\ decodeOk
          THEN /\ workspaces' = ws
               /\ sshConfig' = Decode(file)
               /\ pc' = "idle"
               /\ result' = "none"
          ELSE /\ workspaces' = <<>>
               /\ sshConfig' = Nil
               /\ pc' = "none"
               /\ result' = IF readOk THEN "init.Decode" ELSE "init.GetSSHConfig"
    /\ calls' = <<>>
    /\ created' = <<>>
    /\ preFile' = NoText
    /\ preDoc' = Nil
    /\ sameAsPrev' = FALSE
    /\ lookup' = NoLookup
    /\ UNCHANGED <<proxy, imp, reader, pipe, rendered, file, backup, keyFile, prevActive, runs, localCfg>>

\* what returning from Config leaves behind
Return(ok) ==
    /\ result' = IF ok THEN "ok" ELSE "err"
    /\ prevActive' = IF ok THEN {workspaces[i] : i \in 1..Len(workspaces)} ELSE NoRun

Advance(stage, ok) ==
    LET next == ConfigNext(stage, ok) IN
    IF next = "return"
    THEN pc' = "idle" /\ Return(ok)
    ELSE pc' = next /\ UNCHANGED <<result, prevActive>>

\* Config is called: s.sshStore.WritePrivateKey(s.privateKey)
WritePrivateKey ==
    /\ pc = "idle"
    /\ runs < MaxRuns
    /\ runs' = runs + 1
    /\ preFile' = file
    /\ preDoc' = sshConfig
    /\ sameAsPrev' = (prevActive = {workspaces[i] : i \in 1..Len(workspaces)})
    /\ created' = <<>>
    /\ \E ok \in BOOLEAN :
        /\ calls' = <<[stage |-> "WritePrivateKey", ok |-> ok]>>
        /\ keyFile' = StoreWritePrivateKey(keyFile, PrivateKey, ok)
        /\ LET next == ConfigNext("WritePrivateKey", ok) IN
           IF next = "return"
           THEN pc' = "idle" /\ Return(ok)
           ELSE pc' = next /\ result' = "none" /\ UNCHANGED prevActive
    /\ lookup' = NoLookup
    /\ UNCHANGED <<proxy, imp, reader, pipe, rendered, file, backup, workspaces, sshConfig, localCfg>>

CreateNewSSHConfigBackup ==
    /\ pc = "CreateNewSSHConfigBackup"
    /\ \E ok \in BOOLEAN :
        /\ calls' = Append(calls, [stage |-> "CreateNewSSHConfigBackup", ok |-> ok])
        /\ backup' = StoreCreateNewSSHConfigBackup(backup, file, ok)
        /\ Advance("CreateNewSSHConfigBackup", ok)
    /\ UNCHANGED <<proxy, imp, reader, pipe, rendered, lookup, file, keyFile, workspaces, sshConfig, created, preFile, preDoc,
                   sameAsPrev, runs, localCfg>>

CreateBrevSSHConfigEntries ==
    /\ pc = "CreateBrevSSHConfigEntries"
    /\ IF sshConfig = Nil
       THEN \* s.sshConfig.Hosts on a nil pointer
            /\ calls' = Append(calls, [stage |-> "CreateBrevSSHConfigEntries", ok |-> FALSE])
            /\ pc' = "crashed"
            /\ result' = "panic"
            /\ prevActive' = NoRun
            /\ UNCHANGED <<sshConfig, created>>
       ELSE LET r == CreateEntries(sshConfig, workspaces) IN
            \E ok \in DecodeOutcomes(r.sshConfigStr) :
              /\ calls' = Append(calls, [stage |-> "CreateBrevSSHConfigEntries", ok |-> ok])
              /\ sshConfig' = IF ok THEN Decode(r.sshConfigStr) ELSE Nil
              /\ created' = r.identifierPortMapping
              /\ Advance("CreateBrevSSHConfigEntries", ok)
    /\ UNCHANGED <<proxy, imp, reader, pipe, rendered, lookup, file, backup, keyFile, workspaces, preFile, preDoc, sameAsPrev, runs, localCfg>>

PruneInactiveWorkspaces ==
    /\ pc = "PruneInactiveWorkspaces"
    /\ LET newConfig == PruneHosts(sshConfig, GetActiveWorkspaceIdentifiers(workspaces)) IN
       \E ok \in DecodeOutcomes(newConfig) :
         /\ calls' = Append(calls, [stage |-> "PruneInactiveWorkspaces", ok |-> ok])
         /\ sshConfig' = IF ok THEN Decode(newConfig) ELSE sshConfig
         /\ Advance("PruneInactiveWorkspaces", ok)
    /\ UNCHANGED <<proxy, imp, reader, pipe, rendered, lookup, file, backup, keyFile, workspaces, created, preFile, preDoc,
                   sameAsPrev, runs, localCfg>>

WriteSSHConfig ==
    /\ pc = "WriteSSHConfig"
    /\ \E ok \in BOOLEAN :
        /\ calls' = Append(calls, [stage |-> "WriteSSHConfig", ok |-> ok])
        /\ file' = StoreWriteSSHConfig(file, ConfigString(sshConfig), ok)
        /\ Advance("WriteSSHConfig", ok)
    /\ UNCHANGED <<proxy, imp, reader, pipe, rendered, lookup, backup, keyFile, workspaces, sshConfig, created, preFile, preDoc,
                   sameAsPrev, runs, localCfg>>

Next ==
    \/ NewDefaultSSHConfigurer
    \/ WritePrivateKey
    \/ CreateNewSSHConfigBackup
    \/ CreateBrevSSHConfigEntries
    \/ PruneInactiveWorkspaces
    \/ WriteSSHConfig

Spec == Init /\ [][Next]_vars

----------------------------------------------------------------------------
(* Configuration files with a block the parser has no shape for *)

MatchBlock == << <<"Match", "User", "git">>, <<"Port", "22">> >>

AnomalyTexts ==
    {Flatten(bs) : bs \in
        UNION {[1..n -> {MatchBlock, ManagedBlock("a", "2222"), ForeignBlock("a", "22")}] :
                   n \in 0..MaxBlocks}}

InitAnomaly ==
    /\ file \in AnomalyTexts
    /\ backup = NoText
    /\ keyFile = NoKey
    /\ workspaces = <<>>
    /\ sshConfig = Nil
    /\ pc = "none"
    /\ result = "none"
    /\ calls = <<>>
    /\ created = <<>>
    /\ preFile = NoText
    /\ preDoc = Nil
    /\ prevActive = NoRun
    /\ sameAsPrev = FALSE
    /\ runs = 0
    /\ localCfg = Nil
    /\ lookup = NoLookup
    /\ rendered = NoEntry
    /\ reader = NoRead
    /\ pipe = NoPipe
    /\ proxy = NoProxy
    /\ imp = NoImport

SpecAnomaly == InitAnomaly /\ [][Next]_vars

-----------------------------------------------------------------------------
(* Configuration files with Host lines that name no host *)

MalformedBlocks ==
    { << <<"Host">>, <<"IdentityFile", PrivateKeyPath>>, <<"Port", "2225">> >>,
      << <<"Host">>, <<"IdentityFile", "/other.pem">>, <<"Port", "22">> >>,
      ManagedBlock("a", "2222"),
      ForeignBlock("a", "22") }

MalformedTexts == {Flatten(bs) : bs \in UNION {[1..n -> MalformedBlocks] : n \in 1..MaxBlocks}}

InitMalformed ==
    /\ file \in MalformedTexts
    /\ backup = NoText
    /\ keyFile = NoKey
    /\ workspaces = <<>>
    /\ sshConfig = Nil
    /\ pc = "none"
    /\ result = "none"
    /\ calls = <<>>
    /\ created = <<>>
    /\ preFile = NoText
    /\ preDoc = Nil
    /\ prevActive = NoRun
    /\ sameAsPrev = FALSE
    /\ runs = 0
    /\ localCfg = Nil
    /\ lookup = NoLookup
    /\ rendered = NoEntry
    /\ reader = NoRead
    /\ pipe = NoPipe
    /\ proxy = NoProxy
    /\ imp = NoImport

SpecMalformed == InitMalformed /\ [][Next]_vars

-----------------------------------------------------------------------------
(* package brev_ssh, the earlier version of the package: Config reads the    *)
(* file itself, works on a local localCfg and stores it in s.sshConfig at the end *)

Panics == "(panic)"

\* hostnameFromString of brev_ssh: no trimming, and the second token is indexed
\* whether or not the first line has one
hostnameFromStringLegacy(hoststring) ==
    IF hoststring = <<>> THEN ""
    ELSE IF hoststring = << <<>> >> THEN "\n"
    ELSE IF Len(hoststring[1]) < 2 THEN Panics
    ELSE hoststring[1][2]

\* workspaceSSHConfigTemplate of brev_ssh starts with an empty line
makeSSHEntryLegacy(workspaceName, port) ==
    << <<>>,
       <<"Host", workspaceName>>,
       <<"Hostname", "0.0.0.0">>,
       <<"IdentityFile", PrivateKeyPath>>,
       <<"User", "brev">>,
       <<"Port", port>> >>

\* GetBrevHostValues of brev_ssh
GetBrevHostValuesLegacy(c) ==
    LET F[i \in 0..Len(c)] ==
            IF i = 0 THEN <<>>
            ELSE IF checkIfBrevHost(c[i], PrivateKeyPath)
                 THEN Append(F[i-1], hostnameFromStringLegacy(HostString(c[i])))
                 ELSE F[i-1]
    IN  F[Len(c)]

\* hostnameFromString is called for every host, brev host or not
GetBrevHostValuesLegacyPanics(c) ==
    \E i \in 1..Len(c) : hostnameFromStringLegacy(HostString(c[i])) = Panics

\* the loop of CreateBrevSSHConfigEntries of brev_ssh
RECURSIVE CreateLoopLegacy(_, _, _)
CreateLoopLegacy(ids, brevHostValuesSet, acc) ==
    IF ids = <<>> THEN acc
    ELSE LET workspaceIdentifier == Head(ids) IN
         IF workspaceIdentifier \notin brevHostValuesSet
         THEN LET port == SkipUsedPorts(acc.port, acc.ports)
                  entry == makeSSHEntryLegacy(workspaceIdentifier, ToString(port))
              IN  CreateLoopLegacy(Tail(ids), brevHostValuesSet,
                                   [port |-> port,
                                    ports |-> acc.ports \cup {ToString(port)},
                                    sshConfigStr |-> acc.sshConfigStr \o entry,
                                    identifierPortMapping |->
                                        Append(acc.identifierPortMapping,
                                               <<workspaceIdentifier, ToString(port)>>)])
         ELSE CreateLoopLegacy(Tail(ids), brevHostValuesSet, acc)

CreateEntriesLegacy(c, activeWorkspacesIdentifiers) ==
    LET brevHostValues == GetBrevHostValuesLegacy(c)
        brevHostValuesSet == {brevHostValues[i] : i \in 1..Len(brevHostValues)}
    IN  CreateLoopLegacy(activeWorkspacesIdentifiers, brevHostValuesSet,
                         [port |-> BasePort,
                          ports |-> GetBrevPorts(c, brevHostValues),
                          sshConfigStr |-> ConfigString(c),
                          identifierPortMapping |-> <<>>])

\* the loop of PruneInactiveWorkspaces of brev_ssh: host.Matches(name)
RECURSIVE PruneHostsLegacy(_, _)
PruneHostsLegacy(hosts, activeWorkspacesNames) ==
    IF hosts = <<>> THEN <<>>
    ELSE LET host == Head(hosts)
             isBrevHost == checkIfBrevHost(host, PrivateKeyPath)
             foundMatch == \E i \in 1..Len(activeWorkspacesNames) :
                               HostMatches(host, activeWorkspacesNames[i])
         IN  (IF isBrevHost
              THEN (IF foundMatch THEN HostString(host) ELSE <<>>)
              ELSE HostString(host))
                 \o PruneHostsLegacy(Tail(hosts), activeWorkspacesNames)

\* Config of brev_ssh: the stage that follows a stage
ConfigNextLegacy(stage, ok) ==
    IF ~ok THEN "return"
    ELSE CASE stage = "WritePrivateKey" -> "old.CreateNewSSHConfigBackup"
           [] stage = "CreateNewSSHConfigBackup" -> "old.GetSSHConfig"
           [] stage = "GetSSHConfig" -> "old.CreateBrevSSHConfigEntries"
           [] stage = "CreateBrevSSHConfigEntries" -> "old.PruneInactiveWorkspaces"
           [] stage = "PruneInactiveWorkspaces" -> "old.WriteSSHConfig"
           [] stage = "WriteSSHConfig" -> "return"

AdvanceLegacy(stage, ok) ==
    LET next == ConfigNextLegacy(stage, ok) IN
    IF next = "return"
    THEN pc' = "old.idle" /\ Return(ok)
    ELSE pc' = next /\ UNCHANGED <<result, prevActive>>

\* NewDefaultSSHConfigurer of brev_ssh reads nothing
LegacyNewDefaultSSHConfigurer ==
    /\ pc = "none"
    /\ runs = 0
    /\ \E ws \in WorkspaceLists : workspaces' = ws
    /\ sshConfig' = <<ImplicitHost>>
    /\ pc' = "old.idle"
    /\ lookup' = NoLookup
    /\ UNCHANGED <<proxy, imp, reader, pipe, rendered, file, backup, keyFile, result, calls, created, preFile, preDoc,
                   prevActive, sameAsPrev, runs, localCfg>>

LegacyWritePrivateKey ==
    /\ pc = "old.idle"
    /\ runs < MaxRuns
    /\ runs' = runs + 1
    /\ preFile' = file
    /\ preDoc' = Nil
    /\ localCfg' = Nil
    /\ sameAsPrev' = (prevActive = {workspaces[i] : i \in 1..Len(workspaces)})
    /\ created' = <<>>
    /\ \E ok \in BOOLEAN :
        /\ calls' = <<[stage |-> "WritePrivateKey", ok |-> ok]>>
        /\ keyFile' = StoreWritePrivateKey(keyFile, PrivateKey, ok)
        /\ LET next == ConfigNextLegacy("WritePrivateKey", ok) IN
           IF next = "return"
           THEN pc' = "old.idle" /\ Return(ok)
           ELSE pc' = next /\ result' = "none" /\ UNCHANGED prevActive
    /\ lookup' = NoLookup
    /\ UNCHANGED <<proxy, imp, reader, pipe, rendered, file, backup, workspaces, sshConfig>>

LegacyCreateNewSSHConfigBackup ==
    /\ pc = "old.CreateNewSSHConfigBackup"
    /\ \E ok \in BOOLEAN :
        /\ calls' = Append(calls, [stage |-> "CreateNewSSHConfigBackup", ok |-> ok])
        /\ backup' = StoreCreateNewSSHConfigBackup(backup, file, ok)
        /\ AdvanceLegacy("CreateNewSSHConfigBackup", ok)
    /\ UNCHANGED <<proxy, imp, reader, pipe, rendered, lookup, file, keyFile, workspaces, sshConfig, created, preFile, preDoc,
                   sameAsPrev, runs, localCfg>>

\* s.sshStore.GetSSHConfig() and ssh_config.Decode
LegacyGetSSHConfig ==
    /\ pc = "old.GetSSHConfig"
    /\ \E readOk \in BOOLEAN, decodeOk \in DecodeOutcomes(file) :
        LET ok == readOk /\ decodeOk IN
        /\ calls' = Append(calls, [stage |-> "GetSSHConfig", ok |-> ok])
        /\ localCfg' = IF ok THEN Decode(file) ELSE Nil
        /\ preDoc' = IF ok THEN Decode(file) ELSE Nil
        /\ AdvanceLegacy("GetSSHConfig", ok)
    /\ UNCHANGED <<proxy, imp, reader, pipe, rendered, lookup, file, backup, keyFile, workspaces, sshConfig, created, preFile,
                   sameAsPrev, runs>>

LegacyCreateBrevSSHConfigEntries ==
    /\ pc = "old.CreateBrevSSHConfigEntries"
    /\ IF GetBrevHostValuesLegacyPanics(localCfg)
       THEN \* index out of range in hostnameFromString
            /\ calls' = Append(calls, [stage |-> "CreateBrevSSHConfigEntries", ok |-> FALSE])
            /\ pc' = "old.crashed"
            /\ result' = "panic"
            /\ prevActive' = NoRun
            /\ UNCHANGED <<localCfg, created>>
       ELSE LET r == CreateEntriesLegacy(localCfg, workspaces) IN
            \E ok \in DecodeOutcomes(r.sshConfigStr) :
              /\ calls' = Append(calls, [stage |-> "CreateBrevSSHConfigEntries", ok |-> ok])
              /\ localCfg' = IF ok THEN Decode(r.sshConfigStr) ELSE Nil
              /\ created' = r.identifierPortMapping
              /\ AdvanceLegacy("CreateBrevSSHConfigEntries", ok)
    /\ UNCHANGED <<proxy, imp, reader, pipe, rendered, lookup, file, backup, keyFile, workspaces, sshConfig, preFile, preDoc,
                   sameAsPrev, runs>>

LegacyPruneInactiveWorkspaces ==
    /\ pc = "old.PruneInactiveWorkspaces"
    /\ LET newConfig == PruneHostsLegacy(localCfg, workspaces) IN
       \E ok \in DecodeOutcomes(newConfig) :
         /\ calls' = Append(calls, [stage |-> "PruneInactiveWorkspaces", ok |-> ok])
         /\ localCfg' = IF ok THEN Decode(newConfig) ELSE Nil
         /\ AdvanceLegacy("PruneInactiveWorkspaces", ok)
    /\ UNCHANGED <<proxy, imp, reader, pipe, rendered, lookup, file, backup, keyFile, workspaces, sshConfig, created, preFile, preDoc,
                   sameAsPrev, runs>>

\* s.sshStore.WriteSSHConfig(localCfg.String()), then s.sshConfig = *localCfg
LegacyWriteSSHConfig ==
    /\ pc = "old.WriteSSHConfig"
    /\ \E ok \in BOOLEAN :
        /\ calls' = Append(calls, [stage |-> "WriteSSHConfig", ok |-> ok])
        /\ file' = StoreWriteSSHConfig(file, ConfigString(localCfg), ok)
        /\ sshConfig' = IF ok THEN localCfg ELSE sshConfig
        /\ AdvanceLegacy("WriteSSHConfig", ok)
    /\ UNCHANGED <<proxy, imp, reader, pipe, rendered, lookup, backup, keyFile, workspaces, created, preFile, preDoc,
                   sameAsPrev, runs, localCfg>>

NextLegacy ==
    \/ LegacyNewDefaultSSHConfigurer
    \/ LegacyWritePrivateKey
    \/ LegacyCreateNewSSHConfigBackup
    \/ LegacyGetSSHConfig
    \/ LegacyCreateBrevSSHConfigEntries
    \/ LegacyPruneInactiveWorkspaces
    \/ LegacyWriteSSHConfig

SpecLegacy == Init /\ [][NextLegacy]_vars

NextBoth == Next \/ NextLegacy

\* both versions of the package
SpecBoth == Init /\ [][NextBoth]_vars

-----------------------------------------------------------------------------
(* MakeSSHEntry on its own: an entry is rendered, appended to the text of a    *)
(* configuration and the text is parsed                                        *)

RenderAliases == Identifiers \cup {"*", "?"}

RenderPorts == {"22", "2222", "2223"}

IdentityPaths == {PrivateKeyPath, "/other.pem"}

InitRender ==
    /\ file \in InitialTexts
    /\ backup = NoText
    /\ keyFile = NoKey
    /\ workspaces = <<>>
    /\ sshConfig = Nil
    /\ pc = "render"
    /\ result = "none"
    /\ calls = <<>>
    /\ created = <<>>
    /\ preFile = NoText
    /\ preDoc = Nil
    /\ prevActive = NoRun
    /\ sameAsPrev = FALSE
    /\ runs = 0
    /\ localCfg = Nil
    /\ lookup = NoLookup
    /\ rendered \in [workspaceName : RenderAliases, port : RenderPorts,
                   privateKeyPath : IdentityPaths, parsed : {<<>>}]
    /\ reader = NoRead
    /\ pipe = NoPipe
    /\ proxy = NoProxy
    /\ imp = NoImport

\* sshConfigStr += entry, then sshConfigFromString, as CreateBrevSSHConfigEntries does
RenderAndParse ==
    /\ pc = "render"
    /\ ~DecodeRejects(file)
    /\ LET sshConfigStr == ConfigString(Decode(file))
                               \o MakeSSHEntry(rendered.workspaceName, rendered.port, rendered.privateKeyPath)
       IN  rendered' = [rendered EXCEPT !.parsed = Decode(sshConfigStr)]
    /\ pc' = "rendered"
    /\ UNCHANGED <<proxy, imp, reader, pipe, file, backup, keyFile, workspaces, sshConfig, result, calls, created,
                   preFile, preDoc, prevActive, sameAsPrev, runs, localCfg, lookup>>

SpecRender == InitRender /\ [][RenderAndParse]_vars

-----------------------------------------------------------------------------
(* SSHConfig, the Reader and Writer of pkg/brevssh/ssh.go *)

\* Sync invocations in one behaviour
MaxSyncs == 1
\* the longest Dependencies list of a fragment
MaxDeps == 2
\* the calls of findDependencies within one another that are followed
MaxDepth == 4

Ports == {"2222", "2223"}

\* the IdentityPortMap values a caller passes to Sync
IdentityPortMaps ==
    UNION {[S -> Ports] : S \in {T \in SUBSET Identifiers : Cardinality(T) <= MaxWorkspaces}}

\* the orders in which a range loop can visit the keys of a map
KeyOrders(m) ==
    {o \in [1..Cardinality(DOMAIN m) -> DOMAIN m] : \A i, j \in DOMAIN o : i # j => o[i] # o[j]}

\* the loop of SSHConfig.Sync: one entry for every key of the map, in the order visited
RECURSIVE SyncLoop(_, _, _)
SyncLoop(order, identityPortMap, sshConfigString) ==
    IF order = <<>> THEN sshConfigString
    ELSE SyncLoop(Tail(order), identityPortMap,
                  sshConfigString \o MakeSSHEntry(Head(order), identityPortMap[Head(order)],
                                                  PrivateKeyPath))

\* SSHConfig.Sync: the step that follows a step
SyncNext(stage, ok) ==
    IF ~ok THEN "return"
    ELSE CASE stage = "Decode" -> "sync.PruneInactiveWorkspaces"
           [] stage = "PruneInactiveWorkspaces" -> "sync.WriteSSHConfig"
           [] stage = "WriteSSHConfig" -> "return"

\* where Sync returns to: its caller, or the loop of SSHConfigurer.Sync
SyncBack == IF pipe = NoPipe THEN "sync.idle" ELSE "pipe.returned"

AdvanceSync(stage, ok) ==
    LET next == SyncNext(stage, ok) IN
    IF next = "return"
    THEN pc' = SyncBack /\ Return(ok)
    ELSE pc' = next /\ UNCHANGED <<result, prevActive>>

\* NewSSHConfig: GetSSHConfig, then Decode
NewSSHConfig ==
    /\ pc = "none" \/ (pc \in {"sync.idle", "sync.crashed"} /\ result # "none")
    /\ runs < MaxSyncs
    /\ \E readOk \in BOOLEAN :
        \E decodeOk \in DecodeOutcomes(file) :
          IF readOk /\ decodeOk
          THEN /\ sshConfig' = Decode(file)
               /\ pc' = "sync.idle"
          ELSE /\ sshConfig' = Nil
               /\ pc' = "none"
    /\ workspaces' = <<>>
    /\ result' = "none"
    /\ calls' = <<>>
    /\ created' = <<>>
    /\ preFile' = NoText
    /\ preDoc' = Nil
    /\ sameAsPrev' = FALSE
    /\ lookup' = NoLookup
    /\ reader' = NoRead
    /\ UNCHANGED <<proxy, imp, pipe, rendered, file, backup, keyFile, prevActive, runs, localCfg>>

\* the start of SSHConfig.Sync: the entries of the map are appended, in the order the
\* range loop visits them, and the text is decoded
SyncStart(identityPortMap) ==
    /\ runs' = runs + 1
    /\ preFile' = file
    /\ preDoc' = sshConfig
    /\ IF sshConfig = Nil
       THEN \* s.sshConfig.String() on the nil pointer a failed Decode left
            /\ calls' = <<[stage |-> "Decode", ok |-> FALSE]>>
            /\ pc' = "sync.crashed"
            /\ result' = "panic"
            /\ prevActive' = NoRun
            /\ UNCHANGED <<sshConfig, workspaces, created, sameAsPrev>>
       ELSE \E order \in KeyOrders(identityPortMap) :
              LET sshConfigString == SyncLoop(order, identityPortMap, ConfigString(sshConfig)) IN
              \E ok \in DecodeOutcomes(sshConfigString) :
                /\ workspaces' = order
                /\ created' = [i \in 1..Len(order) |-> <<order[i], identityPortMap[order[i]]>>]
                /\ sameAsPrev' = (prevActive = DOMAIN identityPortMap)
                /\ calls' = <<[stage |-> "Decode", ok |-> ok]>>
                /\ sshConfig' = IF ok THEN Decode(sshConfigString) ELSE Nil
                /\ IF SyncNext("Decode", ok) = "return"
                   THEN pc' = SyncBack /\ result' = "err" /\ prevActive' = NoRun
                   ELSE pc' = SyncNext("Decode", ok) /\ result' = "none" /\ UNCHANGED prevActive
    /\ lookup' = NoLookup
    /\ reader' = NoRead
    /\ UNCHANGED <<proxy, imp, rendered, file, backup, keyFile, localCfg>>

\* a caller calls Sync of the SSHConfig with a map of its own
SSHConfigSync ==
    /\ pc = "sync.idle"
    /\ pipe = NoPipe
    /\ runs < MaxSyncs
    /\ \E identityPortMap \in IdentityPortMaps : SyncStart(identityPortMap)
    /\ UNCHANGED pipe

SSHConfigPruneInactiveWorkspaces ==
    /\ pc = "sync.PruneInactiveWorkspaces"
    /\ LET newConfig == PruneHosts(sshConfig, workspaces) IN
       \E ok \in DecodeOutcomes(newConfig) :
         /\ calls' = Append(calls, [stage |-> "PruneInactiveWorkspaces", ok |-> ok])
         /\ sshConfig' = IF ok THEN Decode(newConfig) ELSE sshConfig
         /\ AdvanceSync("PruneInactiveWorkspaces", ok)
    /\ UNCHANGED <<proxy, imp, reader, pipe, rendered, lookup, file, backup, keyFile, workspaces, created, preFile, preDoc,
                   sameAsPrev, runs, localCfg>>

SSHConfigWriteSSHConfig ==
    /\ pc = "sync.WriteSSHConfig"
    /\ \E ok \in BOOLEAN :
        /\ calls' = Append(calls, [stage |-> "WriteSSHConfig", ok |-> ok])
        /\ file' = StoreWriteSSHConfig(file, ConfigString(sshConfig), ok)
        /\ AdvanceSync("WriteSSHConfig", ok)
    /\ UNCHANGED <<proxy, imp, reader, pipe, rendered, lookup, backup, keyFile, workspaces, sshConfig, created, preFile, preDoc,
                   sameAsPrev, runs, localCfg>>

NextSync ==
    \/ NewSSHConfig
    \/ SSHConfigSync
    \/ SSHConfigPruneInactiveWorkspaces
    \/ SSHConfigWriteSSHConfig

\* the two sync operations of pkg/brevssh: DefaultSSHConfigurer.Config and SSHConfig.Sync
NextWriters == Next \/ NextSync

SpecWriters == Init /\ [][NextWriters]_vars

-----------------------------------------------------------------------------
(* The Reader operations of SSHConfig and SSHConfigurer *)

\* SSHConfig.GetBrevPorts: portSet is declared and never made, so the first
\* portSet[port] = true is an assignment to an entry of a nil map
SSHConfigGetBrevPorts(cfg) ==
    IF cfg = Nil THEN [outcome |-> "panic", value |-> {}]
    ELSE LET hostnames == GetBrevHostValues(cfg) IN
         IF hostnames = <<>>
         THEN [outcome |-> "ok", value |-> {}]
         ELSE [outcome |-> "panic", value |-> {}]

\* SSHConfig.GetBrevHostValueSet: the same with brevHostValuesSet[hostValue] = true
SSHConfigGetBrevHostValueSet(cfg) ==
    IF cfg = Nil THEN [outcome |-> "panic", value |-> {}]
    ELSE LET brevHostValues == GetBrevHostValues(cfg) IN
         IF brevHostValues = <<>>
         THEN [outcome |-> "ok", value |-> {}]
         ELSE [outcome |-> "panic", value |-> {}]

\* the loop of GetIdentityPortMap: identifierPortMapping is declared and never made, so
\* the first identifier without entry is an assignment to an entry of a nil map; the
\* loop ends normally when it has nothing to assign
RECURSIVE IdentityPortLoop(_, _)
IdentityPortLoop(ids, brevHostValuesSet) ==
    IF ids = <<>> THEN "none"
    ELSE IF Head(ids) \notin brevHostValuesSet THEN "GetIdentityPortMap"
    ELSE IdentityPortLoop(Tail(ids), brevHostValuesSet)

\* SSHConfigurer.GetIdentityPortMap with an SSHConfig as its Reader: the operation
\* that faults, if one does, and the map returned (the nil map, which has no key)
GetIdentityPortMap(cfg, ws) ==
    LET brevHostValuesSet == SSHConfigGetBrevHostValueSet(cfg)
        ports == SSHConfigGetBrevPorts(cfg)
    IN  IF brevHostValuesSet.outcome = "panic"
        THEN [fault |-> "GetBrevHostValueSet", map |-> <<>>]
        ELSE IF ports.outcome = "panic"
        THEN [fault |-> "GetBrevPorts", map |-> <<>>]
        ELSE [fault |-> IdentityPortLoop(GetActiveWorkspaceIdentifiers(ws),
                                         brevHostValuesSet.value),
              map |-> <<>>]

\* the Writers an SSHConfigurer is made with: the SSHConfig and another Writer
WriterSlices == {<<"SSHConfig">>, <<"SSHConfig", "Other">>, <<"Other", "SSHConfig">>}

\* mutant: the loop goes on after a writer that failed
WritersNext_IgnoreErr(ok) == "pipe.loop"

\* the loop of SSHConfigurer.Sync: where it goes when a writer has returned
WritersNext(ok) == IF ok THEN "pipe.loop" ELSE "pipe.done"

ReaderGetBrevPorts ==
    /\ pc = "sync.idle"
    /\ pipe = NoPipe
    /\ reader' = [op |-> "GetBrevPorts",
                  outcome |-> SSHConfigGetBrevPorts(sshConfig).outcome,
                  value |-> SSHConfigGetBrevPorts(sshConfig).value]
    /\ UNCHANGED <<proxy, imp, file, backup, keyFile, workspaces, sshConfig, pc, result, calls, created,
                   preFile, preDoc, prevActive, sameAsPrev, runs, localCfg, lookup, rendered,
                   pipe>>

ReaderGetBrevHostValueSet ==
    /\ pc = "sync.idle"
    /\ pipe = NoPipe
    /\ reader' = [op |-> "GetBrevHostValueSet",
                  outcome |-> SSHConfigGetBrevHostValueSet(sshConfig).outcome,
                  value |-> SSHConfigGetBrevHostValueSet(sshConfig).value]
    /\ UNCHANGED <<proxy, imp, file, backup, keyFile, workspaces, sshConfig, pc, result, calls, created,
                   preFile, preDoc, prevActive, sameAsPrev, runs, localCfg, lookup, rendered,
                   pipe>>

\* NewSSHConfigurer with the SSHConfig as Reader, then Sync: GetIdentityPortMap
SSHConfigurerSync ==
    /\ pc = "sync.idle"
    /\ pipe = NoPipe
    /\ runs < MaxSyncs
    /\ \E ws \in WorkspaceLists, writers \in WriterSlices :
        LET identityPortMap == GetIdentityPortMap(sshConfig, ws) IN
        /\ pipe' = [workspaces |-> ws, writers |-> writers, fault |-> identityPortMap.fault,
                    map |-> identityPortMap.map, next |-> 1, called |-> <<>>,
                    outcome |-> IF identityPortMap.fault = "none" THEN "none" ELSE "panic"]
        /\ pc' = IF identityPortMap.fault = "none" THEN "pipe.loop" ELSE "pipe.crashed"
    /\ reader' = NoRead
    /\ preFile' = file
    /\ preDoc' = sshConfig
    /\ UNCHANGED <<proxy, imp, file, backup, keyFile, workspaces, sshConfig, result, calls, created,
                   prevActive, sameAsPrev, runs, localCfg, lookup, rendered>>

\* writer.Sync(*identityPortMap) for the SSHConfig
PipelineSSHConfigSync ==
    /\ pc = "pipe.loop"
    /\ pipe.next <= Len(pipe.writers)
    /\ pipe.writers[pipe.next] = "SSHConfig"
    /\ pipe' = [pipe EXCEPT !.called = Append(@, [writer |-> "SSHConfig", map |-> pipe.map])]
    /\ SyncStart(pipe.map)

\* the SSHConfig has returned from Sync
PipelineWriterReturned ==
    /\ pc = "pipe.returned"
    /\ LET ok == (result = "ok") IN
       /\ pipe' = [pipe EXCEPT !.next = @ + 1, !.outcome = IF ok THEN @ ELSE "err"]
       /\ pc' = WritersNext(ok)
    /\ UNCHANGED <<proxy, imp, file, backup, keyFile, workspaces, sshConfig, result, calls, created,
                   preFile, preDoc, prevActive, sameAsPrev, runs, localCfg, lookup, rendered,
                   reader>>

\* writer.Sync(*identityPortMap) for the other Writer
PipelineOtherWriter ==
    /\ pc = "pipe.loop"
    /\ pipe.next <= Len(pipe.writers)
    /\ pipe.writers[pipe.next] = "Other"
    /\ \E ok \in BOOLEAN :
        /\ pipe' = [pipe EXCEPT !.called = Append(@, [writer |-> "Other", map |-> pipe.map]),
                                !.next = @ + 1,
                                !.outcome = IF ok THEN @ ELSE "err"]
        /\ pc' = WritersNext(ok)
    /\ UNCHANGED <<proxy, imp, file, backup, keyFile, workspaces, sshConfig, result, calls, created,
                   preFile, preDoc, prevActive, sameAsPrev, runs, localCfg, lookup, rendered,
                   reader>>

\* the loop is over: return nil
PipelineReturn ==
    /\ pc = "pipe.loop"
    /\ pipe.next > Len(pipe.writers)
    /\ pipe' = [pipe EXCEPT !.outcome = "ok"]
    /\ pc' = "pipe.done"
    /\ UNCHANGED <<proxy, imp, file, backup, keyFile, workspaces, sshConfig, result, calls, created,
                   preFile, preDoc, prevActive, sameAsPrev, runs, localCfg, lookup, rendered,
                   reader>>

NextPipeline ==
    \/ NextSync
    \/ ReaderGetBrevPorts
    \/ ReaderGetBrevHostValueSet
    \/ SSHConfigurerSync
    \/ PipelineSSHConfigSync
    \/ PipelineWriterReturned
    \/ PipelineOtherWriter
    \/ PipelineReturn

\* SSHConfig with its callers: direct calls and the SSHConfigurer
SpecPipeline == Init /\ [][NextPipeline]_vars

-----------------------------------------------------------------------------
(* The configuration file is shared with the user and with other programs *)

\* a host block another process adds to the file
ExternalBlock == ForeignBlock("x", "22")

HasExternalBlock(text) == \E i \in 1..Len(text) : text[i] = ExternalBlock[1]

\* another process appends its block to the file while no Config is running
ExternalEdit ==
    /\ pc = "idle"
    /\ ~HasExternalBlock(file)
    /\ file' = Lines(file) \o ExternalBlock
    /\ UNCHANGED <<proxy, imp, reader, pipe, rendered, backup, keyFile, workspaces, sshConfig, pc, result, calls, created,
                   preFile, preDoc, prevActive, sameAsPrev, runs, localCfg, lookup>>

NextShared == Next \/ ExternalEdit

SpecShared == Init /\ [][NextShared]_vars

-----------------------------------------------------------------------------
(* GetConfiguredWorkspacePort, the same in both versions of the package *)

\* s.sshConfig.Get(workspace.DNS, "Port"): Config.Get has no error for a key that is
\* not there, and dereferences its receiver
ConfiguredWorkspacePort(cfg, dns) ==
    IF cfg = Nil
    THEN [alias |-> dns, port |-> "", outcome |-> "panic"]
    ELSE [alias |-> dns, port |-> ConfigGet(cfg, dns, "Port"), outcome |-> "ok"]

GetConfiguredWorkspacePort ==
    /\ pc = "idle"
    /\ \E dns \in Identifiers : lookup' = ConfiguredWorkspacePort(sshConfig, dns)
    /\ UNCHANGED <<proxy, imp, reader, pipe, rendered, file, backup, keyFile, workspaces, sshConfig, pc, result, calls, created,
                   preFile, preDoc, prevActive, sameAsPrev, runs, localCfg>>

LegacyGetConfiguredWorkspacePort ==
    /\ pc = "old.idle"
    /\ \E dns \in Identifiers : lookup' = ConfiguredWorkspacePort(sshConfig, dns)
    /\ UNCHANGED <<proxy, imp, reader, pipe, rendered, file, backup, keyFile, workspaces, sshConfig, pc, result, calls, created,
                   preFile, preDoc, prevActive, sameAsPrev, runs, localCfg>>

NextLookup ==
    \/ NextBoth
    \/ GetConfiguredWorkspacePort
    \/ LegacyGetConfiguredWorkspacePort

\* both versions of the package with their callers looking ports up
SpecLookup == Init /\ [][NextLookup]_vars

----------------------------------------------------------------------------
(* pkg/cmd/proxy: the proxy command *)

\* the configurer is not in use
NoConfigurer ==
    /\ file = <<>>
    /\ backup = NoText
    /\ keyFile = NoKey
    /\ workspaces = <<>>
    /\ sshConfig = Nil
    /\ pc = "none"
    /\ result = "none"
    /\ calls = <<>>
    /\ created = <<>>
    /\ preFile = NoText
    /\ preDoc = Nil
    /\ prevActive = NoRun
    /\ sameAsPrev = FALSE
    /\ runs = 0
    /\ localCfg = Nil
    /\ lookup = NoLookup
    /\ rendered = NoEntry
    /\ reader = NoRead
    /\ pipe = NoPipe

Running == "RUNNING"
Statuses == {Running, "STOPPED", "DEPLOYING"}
allowedWorkspaceImage == "brevdev/ubuntu-proxy"

\* version strings: well formed ones, one that is no version, one with a segment that does
\* not fit an int64
VersionStrings == {"0.2", "0.3", "1.6", "1.7", "latest", "1.99999999999999999999"}

\* version.NewVersion: the version as a number (100 * major + minor), or the error
NewVersion(v) ==
    CASE v = "0.2" -> [err |-> "none", value |-> 2]
      [] v = "0.3" -> [err |-> "none", value |-> 3]
      [] v = "1.6" -> [err |-> "none", value |-> 106]
      [] v = "1.7" -> [err |-> "none", value |-> 107]
      [] v = "1.99999999999999999999" -> [err |-> "Error parsing version", value |-> 0]
      [] OTHER -> [err |-> "Malformed version", value |-> 0]

\* the constraints ">= 1.7" and ">= 0.3"
allowedWorkspaceInfraVersion(value) == value >= 107
allowedWorkspaceImageTag(value) == value >= 3

\* an image, split at the colons: a name alone, or a name and a tag
Images == {<<name>> : name \in {allowedWorkspaceImage, "other"}}
          \cup {<<name, tag>> : name \in {allowedWorkspaceImage, "other"},
                                 tag \in {"0.2", "0.3", "latest", "1.99999999999999999999"}}

ProxyWorkspaces == [Status : Statuses, Version : {""} \cup VersionStrings, Image : Images]

\* mutant: every status passes
checkWorkspaceStatusOrErr_Any(workspace) == TRUE

checkWorkspaceStatusOrErr(workspace) == workspace.Status = Running

checkWorkspaceImageVersionOrErr(workspace) ==
    LET imageSplit == workspace.Image IN
    IF Len(imageSplit) # 2 THEN FALSE
    ELSE LET wiv == NewVersion(imageSplit[2]) IN
         IF wiv.err # "none"
         THEN wiv.err = "Malformed version"
         ELSE ~(~allowedWorkspaceImageTag(wiv.value) /\ imageSplit[1] # allowedWorkspaceImage)

checkWorkspaceInfraVersionOrErr(workspace) ==
    IF workspace.Version # ""
    THEN LET wv == NewVersion(workspace.Version) IN
         wv.err = "none" /\ allowedWorkspaceInfraVersion(wv.value)
    ELSE TRUE

\* CheckWorkspaceCanSSH: TRUE when it returns no error
CheckWorkspaceCanSSH(workspace, disableCheck) ==
    /\ disableCheck \/ (checkWorkspaceInfraVersionOrErr(workspace)
                        /\ checkWorkspaceImageVersionOrErr(workspace))
    /\ checkWorkspaceStatusOrErr(workspace)

InitProxy ==
    /\ NoConfigurer
    /\ imp = NoImport
    /\ proxy \in [workspace : ProxyWorkspaces, disableCheck : BOOLEAN, pc : {"GetWorkspace"},
                  calls : {<<>>}, result : {"none"}]

\* a call of Proxy is done: the next one starts, or Proxy returns the error
ProxyStep(op, ok, next) ==
    [proxy EXCEPT !.calls = Append(@, [op |-> op, ok |-> ok]),
                  !.pc = IF ok THEN next ELSE "done",
                  !.result = IF ~ok THEN "err" ELSE IF next = "done" THEN "ok" ELSE "none"]

ProxyGetWorkspace ==
    /\ proxy.pc = "GetWorkspace"
    /\ \E ok \in BOOLEAN : proxy' = ProxyStep("GetWorkspace", ok, "CheckWorkspaceCanSSH")
    /\ UNCHANGED <<imp, file, backup, keyFile, workspaces, sshConfig, pc, result, calls, created,
                   preFile, preDoc, prevActive, sameAsPrev, runs, localCfg, lookup, rendered,
                   reader, pipe>>

ProxyCheckWorkspaceCanSSH ==
    /\ proxy.pc = "CheckWorkspaceCanSSH"
    /\ proxy' = ProxyStep("CheckWorkspaceCanSSH",
                          CheckWorkspaceCanSSH(proxy.workspace, proxy.disableCheck),
                          "GetCurrentUserKeys")
    /\ UNCHANGED <<imp, file, backup, keyFile, workspaces, sshConfig, pc, result, calls, created,
                   preFile, preDoc, prevActive, sameAsPrev, runs, localCfg, lookup, rendered,
                   reader, pipe>>

\* WriteUserPrivateKey: the keys are fetched
ProxyGetCurrentUserKeys ==
    /\ proxy.pc = "GetCurrentUserKeys"
    /\ \E ok \in BOOLEAN : proxy' = ProxyStep("GetCurrentUserKeys", ok, "WritePrivateKey")
    /\ UNCHANGED <<imp, file, backup, keyFile, workspaces, sshConfig, pc, result, calls, created,
                   preFile, preDoc, prevActive, sameAsPrev, runs, localCfg, lookup, rendered,
                   reader, pipe>>

\* WriteUserPrivateKey: the private key is written
ProxyWritePrivateKey ==
    /\ proxy.pc = "WritePrivateKey"
    /\ \E ok \in BOOLEAN :
        /\ proxy' = ProxyStep("WritePrivateKey", ok, "Run")
        /\ keyFile' = StoreWritePrivateKey(keyFile, PrivateKey, ok)
    /\ UNCHANGED <<imp, file, backup, workspaces, sshConfig, pc, result, calls, created,
                   preFile, preDoc, prevActive, sameAsPrev, runs, localCfg, lookup, rendered,
                   reader, pipe>>

\* huproxyclient.Run: the tunnel, until it ends
ProxyRun ==
    /\ proxy.pc = "Run"
    /\ \E ok \in BOOLEAN : proxy' = ProxyStep("Run", ok, "done")
    /\ UNCHANGED <<imp, file, backup, keyFile, workspaces, sshConfig, pc, result, calls, created,
                   preFile, preDoc, prevActive, sameAsPrev, runs, localCfg, lookup, rendered,
                   reader, pipe>>

NextProxy ==
    \/ ProxyGetWorkspace
    \/ ProxyCheckWorkspaceCanSSH
    \/ ProxyGetCurrentUserKeys
    \/ ProxyWritePrivateKey
    \/ ProxyRun

SpecProxy == InitProxy /\ [][NextProxy]_vars

-----------------------------------------------------------------------------
(* pkg/cmd/importpkg: the dependencies of a shell fragment *)

Names == {"a", "b"}

\* the Dependencies of a fragment
DependencyLists == UNION {[1..n -> Names] : n \in 0..MaxDeps}

\* a dictionary of fragments: the names it has, each with its Dependencies
Dictionaries == UNION {[D -> DependencyLists] : D \in SUBSET Names}

\* the Dependencies of the definition findDependencies looks up: the baseline first, then
\* the global dictionary, and the empty fragment when neither has the name
Definition(shName, baselineDependencies, globalDependencies) ==
    IF shName \in DOMAIN baselineDependencies THEN baselineDependencies[shName]
    ELSE IF shName \in DOMAIN globalDependencies THEN globalDependencies[shName]
    ELSE <<>>

\* a call of findDependencies: its name, the dependencies flatmap has still to go
\* through, and what flatmap has put together
Frame(shName) ==
    [name |-> shName, todo |-> Definition(shName, imp.baseline, imp.global), acc |-> <<>>]

RECURSIVE uniq(_)
uniq(xs) ==
    IF xs = <<>> THEN <<>>
    ELSE LET front == uniq(SubSeq(xs, 1, Len(xs) - 1))
             el == xs[Len(xs)]
         IN  IF \E i \in 1..Len(front) : front[i] = el THEN front ELSE Append(front, el)

difference(from, remove) ==
    uniq(SelectSeq(from, LAMBDA el : \A i \in 1..Len(remove) : remove[i] # el))

InitImport ==
    /\ NoConfigurer
    /\ proxy = NoProxy
    /\ imp \in [shName : Names, baseline : Dictionaries, global : Dictionaries,
                stack : {<<>>}, status : {"start"}, order : {<<>>}, failures : {<<>>}]

\* prependDependencies calls findDependencies for the name
PrependDependencies ==
    /\ imp.status = "start"
    /\ imp' = [imp EXCEPT !.stack = <<Frame(imp.shName)>>, !.status = "running"]
    /\ UNCHANGED <<proxy, file, backup, keyFile, workspaces, sshConfig, pc, result, calls,
                   created, preFile, preDoc, prevActive, sameAsPrev, runs, localCfg, lookup,
                   rendered, reader, pipe>>

\* the function of flatmap calls findDependencies for the next dependency
FindDependenciesCall ==
    /\ imp.status = "running"
    /\ Len(imp.stack) < MaxDepth
    /\ LET top == imp.stack[Len(imp.stack)] IN
       /\ top.todo # <<>>
       /\ imp' = [imp EXCEPT !.stack = Append(@, Frame(Head(top.todo)))]
    /\ UNCHANGED <<proxy, file, backup, keyFile, workspaces, sshConfig, pc, result, calls,
                   created, preFile, preDoc, prevActive, sameAsPrev, runs, localCfg, lookup,
                   rendered, reader, pipe>>

\* flatmap is through: findDependencies returns to the call that made it, which appends
\* the name of the dependency
FindDependenciesReturn ==
    /\ imp.status = "running"
    /\ Len(imp.stack) > 1
    /\ LET n == Len(imp.stack)
           top == imp.stack[n]
           caller == imp.stack[n - 1]
       IN  /\ top.todo = <<>>
           /\ imp' = [imp EXCEPT !.stack =
                        Append(SubSeq(imp.stack, 1, n - 2),
                               [caller EXCEPT !.acc = (@ \o top.acc) \o <<Head(caller.todo)>>,
                                              !.todo = Tail(@)])]
    /\ UNCHANGED <<proxy, file, backup, keyFile, workspaces, sshConfig, pc, result, calls,
                   created, preFile, preDoc, prevActive, sameAsPrev, runs, localCfg, lookup,
                   rendered, reader, pipe>>

\* findDependencies returns to prependDependencies, which orders what it got
PrependDependenciesReturn ==
    /\ imp.status = "running"
    /\ Len(imp.stack) = 1
    /\ imp.stack[1].todo = <<>>
    /\ LET dependencies == uniq(imp.stack[1].acc)
           nonBaselineDependencies ==
               SelectSeq(dependencies, LAMBDA dep : dep \notin DOMAIN imp.baseline)
           canBeFixedDependencies ==
               SelectSeq(nonBaselineDependencies, LAMBDA dep : dep \in DOMAIN imp.global)
       IN  imp' = [imp EXCEPT !.stack = <<>>, !.status = "returned",
                              !.order = Append(dependencies, imp.shName),
                              !.failures = difference(nonBaselineDependencies,
                                                      canBeFixedDependencies)]
    /\ UNCHANGED <<proxy, file, backup, keyFile, workspaces, sshConfig, pc, result, calls,
                   created, preFile, preDoc, prevActive, sameAsPrev, runs, localCfg, lookup,
                   rendered, reader, pipe>>

NextImport ==
    \/ PrependDependencies
    \/ FindDependenciesCall
    \/ FindDependenciesReturn
    \/ PrependDependenciesReturn

SpecImport == InitImport /\ [][NextImport]_vars

----------------------------------------------------------------------------
(* Vocabulary of the properties *)

StageOrder ==
    <<"WritePrivateKey", "CreateNewSSHConfigBackup", "CreateBrevSSHConfigEntries",
      "PruneInactiveWorkspaces", "WriteSSHConfig">>

Returned == pc \in {"idle", "old.idle"}
Succeeded == Returned /\ result = "ok"
Failed == Returned /\ result = "err"

\* the stages of the invocation without the read of the file
StagesRun == SelectSeq(calls, LAMBDA c : c.stage # "GetSSHConfig")

ActiveSet == {workspaces[i] : i \in 1..Len(workspaces)}

Alias(host) == hostnameFromString(HostString(host))

\* the host blocks of a configuration, without the implicit block of the top level
HostBlocks(cfg) == SelectSeq(cfg, LAMBDA h : ~h.implicit)

IsManaged(host) == checkIfBrevHost(host, PrivateKeyPath)

ManagedBlocks(cfg) == SelectSeq(cfg, IsManaged)

ForeignHostBlocks(cfg) == SelectSeq(HostBlocks(cfg), LAMBDA h : ~IsManaged(h))

StageFailed(stage) == \E i \in 1..Len(calls) : calls[i].stage = stage /\ ~calls[i].ok

StageRan(stage) == \E i \in 1..Len(calls) : calls[i].stage = stage

----------------------------------------------------------------------------
(* C1: the stages of one Config invocation run in the order WritePrivateKey,  *)
(* CreateNewSSHConfigBackup, create, prune, WriteSSHConfig, each at most once, *)
(* and a stage that fails is the last stage of the invocation; in both        *)
(* versions of the package.                                                    *)
C1_StagesInOrder ==
    /\ Len(StagesRun) <= Len(StageOrder)
    /\ \A i \in 1..Len(StagesRun) : StagesRun[i].stage = StageOrder[i]
    /\ \A i \in 1..Len(calls) :
          ~calls[i].ok => i = Len(calls) /\ pc \in {"idle", "crashed", "old.idle", "old.crashed"}
    /\ Succeeded => Len(StagesRun) = Len(StageOrder)

\* a Config that stopped at a failed create stage
C1_Witness ==
    /\ Failed
    /\ Len(StagesRun) = 3
    /\ ~StagesRun[3].ok

(* C2: when Config returns an error the persisted configuration is the one    *)
(* from before the call, and after a failed backup WriteSSHConfig is not      *)
(* called.                                                                    *)
C2_ErrorLeavesFile ==
    Failed =>
        /\ file = preFile
        /\ StageFailed("CreateNewSSHConfigBackup") => ~StageRan("WriteSSHConfig")

\* the final write failed after entries were created in memory
C2_Witness ==
    /\ Failed
    /\ StageFailed("WriteSSHConfig")
    /\ created # <<>>
    /\ ConfigString(sshConfig) # file

(* C3: a successful Config writes every host block that has no IdentityFile   *)
(* equal to the private key path exactly as it was loaded, once and in place, *)
(* and adds no such block, whether or not its alias is active.                *)
C3_Isolation ==
    Succeeded => ForeignHostBlocks(Decode(file)) = ForeignHostBlocks(preDoc)

\* a foreign block with an active alias went through a Config that pruned and created
C3_Witness ==
    /\ Succeeded
    /\ \E i \in 1..Len(preDoc) :
          ~preDoc[i].implicit /\ ~IsManaged(preDoc[i]) /\ Alias(preDoc[i]) \in ActiveSet
    /\ created # <<>>
    /\ Len(ManagedBlocks(Decode(file))) < Len(ManagedBlocks(preDoc)) + Len(created)

(* C4: after a successful Config every active identifier has exactly one      *)
(* managed host block with that alias, and the block has a Port directive.    *)
(* Stated for loaded configurations with at most one managed block per        *)
(* active identifier.                                                         *)
C4_ExactlyOneEntry ==
    LET written == ManagedBlocks(Decode(file))
        loaded == ManagedBlocks(preDoc)
        Of(blocks, id) == {i \in 1..Len(blocks) : Alias(blocks[i]) = id}
    IN  (Succeeded /\ \A id \in ActiveSet : Cardinality(Of(loaded, id)) <= 1) =>
            \A id \in ActiveSet :
                /\ Cardinality(Of(written, id)) = 1
                /\ \A i \in Of(written, id) : HostValue(written[i], "Port") # NoValue

(* C5: after a successful Config the written configuration has no managed     *)
(* block whose alias is not an active identifier.                             *)
C5_NoStaleEntry ==
    Succeeded =>
        LET written == Decode(file) IN
        \A i \in 1..Len(written) : IsManaged(written[i]) => Alias(written[i]) \in ActiveSet

\* a stale managed block was loaded and another managed block was kept
C5_Witness ==
    /\ Succeeded
    /\ \E i \in 1..Len(preDoc) : IsManaged(preDoc[i]) /\ Alias(preDoc[i]) \notin ActiveSet
    /\ \E i \in 1..Len(preDoc) : IsManaged(preDoc[i]) /\ Alias(preDoc[i]) \in ActiveSet

\* <<alias, port>> of the managed blocks, in document order
ManagedPairs(cfg) ==
    LET m == ManagedBlocks(cfg) IN
    [i \in 1..Len(m) |-> <<Alias(m[i]), HostValue(m[i], "Port")>>]

(* C6: a successful Config leaves the managed entries of the active aliases   *)
(* with the ports they had, in place, and creates entries only for aliases    *)
(* that had no managed entry.                                                 *)
C6_Retention ==
    Succeeded =>
        /\ ManagedPairs(Decode(file)) =
               SelectSeq(ManagedPairs(preDoc), LAMBDA e : e[1] \in ActiveSet) \o created
        /\ \A i \in 1..Len(created), j \in 1..Len(ManagedPairs(preDoc)) :
               created[i][1] # ManagedPairs(preDoc)[j][1]

\* a second run kept an entry and created another
C6_Witness ==
    /\ Succeeded
    /\ runs = 2
    /\ created # <<>>
    /\ \E j \in 1..Len(ManagedPairs(preDoc)) : ManagedPairs(preDoc)[j][1] \in ActiveSet

(* C7: a successful Config that follows a successful Config with the same     *)
(* active set writes the configuration it found and creates no entry.         *)
C7_Idempotence ==
    (Succeeded /\ sameAsPrev) =>
        /\ file = preFile
        /\ created = <<>>
        /\ ManagedPairs(Decode(file)) = ManagedPairs(Decode(preFile))

\* the second of two runs with the same, non-empty active set
C7_Witness ==
    /\ Succeeded
    /\ sameAsPrev
    /\ runs = 2
    /\ ManagedPairs(Decode(file)) # <<>>

PortsDistinct(cfg) ==
    LET m == ManagedPairs(cfg) IN
    \A i, j \in 1..Len(m) : i # j => m[i][2] # m[j][2]

(* C8: after a successful Config no two managed entries of the written        *)
(* configuration have the same Port, whatever foreign blocks and patterns the *)
(* loaded configuration holds.  Stated for loaded configurations whose        *)
(* managed entries have different ports.                                      *)
C8_PortUniqueness ==
    (Succeeded /\ PortsDistinct(preDoc)) => PortsDistinct(Decode(file))

ManagedPortSet(cfg) == {ManagedPairs(cfg)[i][2] : i \in 1..Len(ManagedPairs(cfg))}

\* the Port values of all the blocks of a configuration
AllPortValues(cfg) ==
    {cfg[h].nodes[i][2] : <<h, i>> \in
        {x \in (1..Len(cfg)) \X (1..20) :
            /\ x[2] <= Len(cfg[x[1]].nodes)
            /\ IsKV(cfg[x[1]].nodes[x[2]])
            /\ cfg[x[1]].nodes[x[2]][1] = "Port"}}

SmallestFree(used) ==
    CHOOSE p \in BasePort..(BasePort + Cardinality(used)) :
        /\ ToString(p) \notin used
        /\ \A q \in BasePort..(p - 1) : ToString(q) \in used

CreatedBefore(i) == {created[j][2] : j \in 1..(i - 1)}

(* C9: every entry created in a pass gets the smallest port from 2222 on that *)
(* is neither the Port of a managed block of the loaded configuration nor a   *)
(* port given earlier in the pass.                                            *)
C9_SmallestFreePort ==
    \A i \in 1..Len(created) :
        created[i][2] = ToString(SmallestFree(ManagedPortSet(preDoc) \cup CreatedBefore(i)))

(* C10: no entry is created with a port that is a Port value of the document  *)
(* at the time of the allocation, the blocks pruned later included.           *)
C10_PortNotInDocument ==
    \A i \in 1..Len(created) :
        created[i][2] \notin AllPortValues(preDoc) \cup CreatedBefore(i)

Occurrences(seq, x) == Cardinality({i \in 1..Len(seq) : seq[i] = x})

\* the blocks of a configuration with that header alias which satisfy Test
BlocksOf(cfg, alias, Test(_)) ==
    SelectSeq(HostBlocks(cfg), LAMBDA h : Alias(h) = alias /\ Test(h))

IsForeign(host) == ~IsManaged(host)

\* the loaded configuration has a foreign block and no managed block for an identifier
\* that is listed once
ScenarioC(id) ==
    /\ Occurrences(workspaces, id) = 1
    /\ BlocksOf(preDoc, id, IsForeign) # <<>>
    /\ BlocksOf(preDoc, id, IsManaged) = <<>>

(* C11: when the loaded configuration holds a foreign block and no managed    *)
(* block for an active identifier, a successful Config adds one managed block *)
(* for it and leaves the foreign block as it was.                             *)
C11_NoMergeAcrossOwnership ==
    Succeeded =>
        \A id \in ActiveSet :
            ScenarioC(id) =>
                /\ Len(BlocksOf(Decode(file), id, IsManaged)) = 1
                /\ Occurrences(created, <<id, HostValue(BlocksOf(Decode(file), id, IsManaged)[1], "Port")>>) = 1
                /\ BlocksOf(Decode(file), id, IsForeign) = BlocksOf(preDoc, id, IsForeign)

\* scenario C itself: one foreign block for a, active set [a]
C11_Witness ==
    /\ Succeeded
    /\ workspaces = <<"a">>
    /\ preFile = ForeignBlock("a", "22")
    /\ ScenarioC("a")
    /\ file = ForeignBlock("a", "22") \o ManagedBlock("a", "2222")

\* the managed blocks of the configurer's configuration with that alias and a Port
ManagedWithPort(cfg, alias) ==
    SelectSeq(BlocksOf(cfg, alias, IsManaged), LAMBDA h : HostValue(h, "Port") # NoValue)

(* C12: GetConfiguredWorkspacePort fails when the configuration the configurer *)
(* holds has no managed block with the requested alias and a Port directive:   *)
(* it returns neither an empty port nor the port of a foreign block.           *)
C12_LookupNotFound ==
    (lookup # NoLookup /\ sshConfig # Nil /\ ManagedWithPort(sshConfig, lookup.alias) = <<>>)
        => lookup.outcome = "err"

\* the port of a foreign block is returned as the port of the workspace
C12_ForeignPortReturned ==
    /\ lookup.outcome = "ok"
    /\ lookup.alias = "a"
    /\ lookup.port = "22"
    /\ sshConfig = Decode(ForeignBlock("a", "22"))

(* C13: a Config invocation builds its document from the text that is in the  *)
(* file during the invocation, so a host block another process wrote to the   *)
(* file before the invocation started is in the text the invocation writes.   *)
C13_FreshDocument ==
    (Succeeded /\ HasExternalBlock(preFile)) => HasExternalBlock(file)

(* C14: every WriteSSHConfig of a sync operation (DefaultSSHConfigurer.Config  *)
(* or SSHConfig.Sync) comes, in its invocation, after a CreateNewSSHConfigBackup *)
(* that succeeded.                                                             *)
C14_BackupBeforeWrite ==
    \A i \in 1..Len(calls) :
        calls[i].stage = "WriteSSHConfig" =>
            \E j \in 1..(i - 1) : calls[j].stage = "CreateNewSSHConfigBackup" /\ calls[j].ok

\* the run started from the configuration loaded from the text of the file, without
\* managed blocks, and with no workspaces
NothingToDo ==
    /\ preDoc # Nil
    /\ preDoc = Decode(preFile)
    /\ ManagedBlocks(preDoc) = <<>>
    /\ workspaces = <<>>

RenderedHost == rendered.parsed[Len(rendered.parsed)]

(* C16: the entry MakeSSHEntry renders for an alias, a port and an identity   *)
(* path, appended to the text of a configuration and parsed, is a host that   *)
(* checkIfBrevHost accepts for that path, whose header alias is the alias and *)
(* whose Port is the port.                                                    *)
C16_RenderThenParse ==
    pc = "rendered" =>
        /\ ~RenderedHost.implicit
        /\ checkIfBrevHost(RenderedHost, rendered.privateKeyPath)
        /\ hostnameFromString(HostString(RenderedHost)) = rendered.workspaceName
        /\ HostValue(RenderedHost, "Port") = rendered.port
        /\ SubSeq(rendered.parsed, 1, Len(rendered.parsed) - 1) = Decode(file)

\* an entry for another identity path, appended after two blocks
C16_Witness ==
    /\ pc = "rendered"
    /\ rendered.workspaceName = "c"
    /\ rendered.port = "2223"
    /\ rendered.privateKeyPath = "/other.pem"
    /\ file = ManagedBlock("a", "2222") \o ForeignBlock("*", "22")
    /\ Len(rendered.parsed) = 4

\* the top level nodes of a configuration, which come before its first Host line
Preamble(cfg) == cfg[1].nodes

(* C17: the content before the first Host line is never taken for a managed   *)
(* block and never removed by pruning: a successful Config writes it back,    *)
(* also when it has an IdentityFile line with the path of the private key.    *)
C17_PreambleKept ==
    (Succeeded /\ preDoc # Nil) =>
        /\ ~IsManaged(preDoc[1])
        /\ Preamble(Decode(file)) = Preamble(preDoc)

\* the preamble is written back when the code does not take it for a brev host
C17_OtherPreambleKept ==
    (Succeeded /\ preDoc # Nil /\ ~IsManaged(preDoc[1])) =>
        Preamble(Decode(file)) = Preamble(preDoc)

\* the host has the IdentityFile line of the private key
HasKeyLine(host) ==
    \E i \in 1..Len(host.nodes) : host.nodes[i] = <<"IdentityFile", PrivateKeyPath>>

\* the host blocks whose Host line names no host
EmptyHeaders(cfg, WithKey) ==
    SelectSeq(HostBlocks(cfg), LAMBDA h : h.patterns = <<>> /\ (HasKeyLine(h) <=> WithKey))

EmptyHeadersInert ==
    \A i \in 1..Len(preDoc) :
        (~preDoc[i].implicit /\ preDoc[i].patterns = <<>>) =>
            /\ Alias(preDoc[i]) = ""
            /\ ~checkIfHostIsActive(HostString(preDoc[i]), workspaces)

(* C18 as stated: a host block whose header alias is empty matches no active  *)
(* identifier and is kept in the written configuration if it was in the       *)
(* loaded one.                                                                *)
C18_EmptyAliasKept ==
    (Succeeded /\ preDoc # Nil) =>
        /\ EmptyHeadersInert
        /\ EmptyHeaders(Decode(file), TRUE) = EmptyHeaders(preDoc, TRUE)
        /\ EmptyHeaders(Decode(file), FALSE) = EmptyHeaders(preDoc, FALSE)

(* C18 amended: a host block whose header alias is empty matches no active    *)
(* identifier; it is kept in the written configuration if it is not a managed *)
(* block, and removed by pruning, as a stale entry, if it is one.             *)
C18_EmptyAliasNeverActive ==
    (Succeeded /\ preDoc # Nil) =>
        /\ EmptyHeadersInert
        /\ EmptyHeaders(Decode(file), TRUE) = <<>>
        /\ EmptyHeaders(Decode(file), FALSE) = EmptyHeaders(preDoc, FALSE)

\* a managed and a foreign block without alias were loaded, the foreign one is written
C18_Witness ==
    /\ Succeeded
    /\ preDoc # Nil
    /\ Len(EmptyHeaders(preDoc, TRUE)) = 1
    /\ Len(EmptyHeaders(preDoc, FALSE)) = 1
    /\ workspaces = <<"a">>
    /\ file = << <<"Host">>, <<"IdentityFile", "/other.pem">>, <<"Port", "22">> >>
                  \o ManagedBlock("a", "2222")

\* the managed entries of the written configuration that were not created by the run
RetainedPairs ==
    LET written == ManagedPairs(Decode(file))
    IN  SubSeq(written, 1, Len(written) - Len(created))

(* C19: PruneInactiveWorkspaces retains a managed block exactly when its       *)
(* header alias is equal, as a string, to an active identifier; a managed      *)
(* block whose pattern only matches an identifier as a glob is removed.        *)
C19_ExactAliasMatch ==
    (Succeeded /\ preDoc # Nil) =>
        RetainedPairs = SelectSeq(ManagedPairs(preDoc), LAMBDA e : e[1] \in ActiveSet)

\* brev_ssh retained the managed block 'Host ?' for the active identifier a
C19_GlobRetained ==
    /\ Succeeded
    /\ workspaces = <<"a">>
    /\ ManagedPairs(preDoc) = << <<"?", "2224">> >>
    /\ RetainedPairs = << <<"?", "2224">> >>

\* a loaded block that a run retains: a foreign block, or a managed block of an active alias
Retained(host) == IsForeign(host) \/ Alias(host) \in ActiveSet

\* the host an entry parses to
EntryHost(id, port) == Decode(MakeSSHEntry(id, port, PrivateKeyPath))[2]

ManagedAliases(cfg) == {Alias(ManagedBlocks(cfg)[i]) : i \in 1..Len(ManagedBlocks(cfg))}

(* C20: in the configuration a successful Config writes, the retained blocks  *)
(* are in the order they had in the loaded configuration, and the created     *)
(* blocks come after all of them, in the order in which the active            *)
(* identifiers were iterated.                                                 *)
C20_Ordering ==
    (Succeeded /\ preDoc # Nil) =>
        /\ HostBlocks(Decode(file)) =
               SelectSeq(HostBlocks(preDoc), Retained)
                   \o [i \in 1..Len(created) |-> EntryHost(created[i][1], created[i][2])]
        /\ [i \in 1..Len(created) |-> created[i][1]] =
               SelectSeq(workspaces, LAMBDA id : id \notin ManagedAliases(preDoc))

\* two blocks were retained, the block between them was pruned, and a block was
\* created after them
C20_Witness ==
    /\ Succeeded
    /\ preDoc # Nil
    /\ Len(HostBlocks(preDoc)) = 3
    /\ Retained(HostBlocks(preDoc)[1])
    /\ ~Retained(HostBlocks(preDoc)[2])
    /\ Retained(HostBlocks(preDoc)[3])
    /\ Len(created) = 1
    /\ Len(HostBlocks(Decode(file))) = 3

\* a step of loading, creating or pruning failed on the text it parsed
ParseFailed ==
    \/ result = "init.Decode"
    \/ StageFailed("CreateBrevSSHConfigEntries")
    \/ StageFailed("PruneInactiveWorkspaces")

(* C21: a line or block that does not fit the expected shape is never fatal:  *)
(* loading, creating and pruning do not fail on a text that needs no other    *)
(* file to be read.                                                           *)
C21_ParseNeverFatal ==
    ~DecodeReadsFiles(file) => ~ParseFailed

\* the elements of a sequence
Range(seq) == {seq[i] : i \in 1..Len(seq)}

\* SSHConfigurer.Sync is over: it returned, or a fault ended it
PipelineOver == pc \in {"pipe.done", "pipe.crashed"}

(* C22: when SSHConfigurer.Sync hands the map of GetIdentityPortMap to the    *)
(* Sync of the SSHConfig, every managed block of an active alias that the     *)
(* configuration had before is in the configuration Sync writes, with the     *)
(* port it had.                                                               *)
C22_ActiveEntriesKept ==
    (PipelineOver /\ pipe.outcome \in {"ok", "panic"} /\ preDoc # Nil
        /\ "SSHConfig" \in Range(pipe.writers)) =>
        \A pair \in Range(ManagedPairs(preDoc)) :
            pair[1] \in Range(pipe.workspaces) =>
                /\ "SSHConfig" \in {pipe.called[i].writer : i \in 1..Len(pipe.called)}
                /\ result = "ok"
                /\ pair \in Range(ManagedPairs(Decode(file)))

(* C26: GetIdentityPortMap of the SSHConfigurer ends without a fault for      *)
(* every list of workspaces and every configuration of its Reader, and the    *)
(* map it returns has a port for every active identifier without an entry.    *)
C26_MapReturned ==
    pipe # NoPipe =>
        /\ pipe.fault = "none"
        /\ \A id \in Range(pipe.workspaces) \ ManagedAliases(preDoc) : id \in DOMAIN pipe.map

(* C27: the Reader operations of the SSHConfig end normally on every          *)
(* configuration: GetBrevPorts returns the Port values of the managed blocks  *)
(* and GetBrevHostValueSet returns their aliases.                             *)
C27_ReadersComplete ==
    /\ reader.op = "GetBrevPorts" =>
            reader.outcome = "ok" /\ reader.value = ManagedPortSet(sshConfig)
    /\ reader.op = "GetBrevHostValueSet" =>
            reader.outcome = "ok" /\ reader.value = ManagedAliases(sshConfig)

(* C28: SSHConfigurer.Sync calls Sync of its Writers in the order of the      *)
(* slice and with the one map; after the first writer that fails no other is  *)
(* called and what the writers before it wrote stays; no writer is called     *)
(* when GetIdentityPortMap did not return a map.                              *)
C28_WritersInOrder ==
    pipe # NoPipe =>
        /\ Len(pipe.called) <= Len(pipe.writers)
        /\ \A i \in 1..Len(pipe.called) :
              pipe.called[i] = [writer |-> pipe.writers[i], map |-> pipe.map]
        /\ pipe.fault # "none" => pipe.called = <<>>
        /\ pipe.outcome = "err" => pc = "pipe.done"
        /\ pipe.outcome = "ok" => Len(pipe.called) = Len(pipe.writers)
        /\ (pipe.outcome = "err" /\ Len(pipe.called) = 2 /\ pipe.writers[1] = "SSHConfig") =>
              result = "ok" /\ file = ConfigString(sshConfig)

\* the second of two writers failed after the SSHConfig had written
C28_Witness ==
    /\ pc = "pipe.done"
    /\ pipe.outcome = "err"
    /\ pipe.writers = <<"SSHConfig", "Other">>
    /\ Len(pipe.called) = 2
    /\ file = ConfigString(sshConfig)

(* C23: after a successful Config, GetConfiguredWorkspacePort for an active   *)
(* identifier returns the Port of a managed block of that alias in the        *)
(* written configuration, whatever foreign blocks come before it.             *)
C23_ManagedPortReturned ==
    (Succeeded /\ lookup # NoLookup /\ lookup.alias \in ActiveSet) =>
        /\ lookup.outcome = "ok"
        /\ \E h \in Range(ManagedWithPort(Decode(file), lookup.alias)) :
              HostValue(h, "Port") = lookup.port

(* C24: CreateBrevSSHConfigEntries appends at most one block for an           *)
(* identifier, also when the list of workspaces has the identifier twice.     *)
C24_OnePerIdentifier ==
    \A i, j \in 1..Len(created) : i # j => created[i][1] # created[j][1]

(* C25: when Config returns an error, the configuration the configurer holds  *)
(* is the one it held before the call.                                        *)
C25_FailureLeavesDocument ==
    Failed => sshConfig = preDoc

ProxyOps == {proxy.calls[i].op : i \in 1..Len(proxy.calls)}

\* every call of op was made after a call of before that succeeded
CalledAfter(op, before) ==
    \A i \in 1..Len(proxy.calls) :
        proxy.calls[i].op = op =>
            \E j \in 1..(i - 1) : proxy.calls[j] = [op |-> before, ok |-> TRUE]

(* C29: Proxy writes the private key and starts huproxyclient.Run only after  *)
(* GetWorkspace succeeded and CheckWorkspaceCanSSH passed; for a workspace    *)
(* whose status is not RUNNING neither WritePrivateKey nor Run is called; Run *)
(* is not called when the key could not be written.                           *)
C29_TunnelAfterChecks ==
    /\ CalledAfter("WritePrivateKey", "GetWorkspace")
    /\ CalledAfter("WritePrivateKey", "CheckWorkspaceCanSSH")
    /\ CalledAfter("Run", "GetWorkspace")
    /\ CalledAfter("Run", "CheckWorkspaceCanSSH")
    /\ CalledAfter("Run", "WritePrivateKey")
    /\ proxy.workspace.Status # "RUNNING" =>
           ProxyOps \cap {"WritePrivateKey", "Run"} = {} /\ keyFile = NoKey
    /\ keyFile # NoKey => [op |-> "CheckWorkspaceCanSSH", ok |-> TRUE] \in Range(proxy.calls)

\* the tunnel ran for a running workspace
C29_Witness ==
    /\ proxy.pc = "done"
    /\ proxy.result = "ok"
    /\ proxy.workspace.Status = "RUNNING"
    /\ "Run" \in ProxyOps
    /\ keyFile # NoKey

\* the key could not be written and Proxy returned the error
C29_KeyWriteFailed ==
    /\ proxy.pc = "done"
    /\ proxy.result = "err"
    /\ [op |-> "WritePrivateKey", ok |-> FALSE] \in Range(proxy.calls)

\* the names of the calls of findDependencies that have not returned
CallNames == [i \in 1..Len(imp.stack) |-> imp.stack[i].name]

(* C30: findDependencies ends for every pair of dictionaries, cyclic          *)
(* Dependencies included: no call of it for a name is made within a call of   *)
(* it for the same name, which would make that call again, without end.       *)
C30_Terminates ==
    \A i, j \in 1..Len(imp.stack) : i # j => CallNames[i] # CallNames[j]

====
